---- MODULE Spec2Model ----
(***************************************************************************)
(* The Pulumi program src/IaC/__main__.py as a state machine.              *)
(*                                                                         *)
(* The Python program is evaluated top to bottom.  A resource constructor  *)
(* registers the resource and returns at once: the resource's properties   *)
(* are Outputs, pending until the resource has been applied.  An input     *)
(* built from an Output (directly, through an invoke, through .apply or    *)
(* Output.secret) makes the consuming resource wait for it.  A Python      *)
(* f-string is evaluated eagerly, when the statement is evaluated, and     *)
(* yields a plain str: it waits for nothing.                               *)
(*                                                                         *)
(* The engine that applies the registered resources is not part of the     *)
(* repository; its steps (StartApply, ProviderReturn, Commit, ApplyFail,   *)
(* RunInvoke) follow sections 4.4, 4.6 and 5 of the specification.         *)
(***************************************************************************)
EXTENDS Naturals, Sequences, FiniteSets, TLC

VARIABLES
    pc,         \* index in Program of the next statement to evaluate
    state,      \* lifecycle state of every resource
    invoke,     \* state of every invoke (provider function call)
    store,      \* State Store: the resources with a committed StateRecord
    outputs,    \* resolved login_server of the Registry, "" while pending
    image,      \* the str the f-string of line 83 produced, "" before that
    sent,       \* the image the Deployment's create was issued with
    exports     \* names exported by pulumi.export

vars == <<pc, state, invoke, store, outputs, image, sent, exports>>

----------------------------------------------------------------------------
(* The declarations of src/IaC/__main__.py, under their Python names.      *)

Resources ==
    {"resource_group", "acr", "aks", "k8s_provider",
     "deployment", "service", "pull_secret"}

Invokes == {"credentials", "acr_credentials"}

\* The statements of the program, in the order Python evaluates them.
Program ==
    << "resource_group", "acr", "aks", "credentials", "kubeconfig",
       "k8s_provider", "deployment", "service", "acr_credentials",
       "pull_secret", "export" >>

\* An Output: what it waits on (resources and invokes) and whether it is secret.
PropertyOf(r) == [waits |-> {r}, secret |-> FALSE]

\* list_..._output(args): an Output that resolves when the invoke has run.
InvokeOutput(i) == [waits |-> {i}, secret |-> FALSE]

\* Output.secret(o): the same Output, tagged secret.
OutputSecret(o) == [o EXCEPT !.secret = TRUE]

\* o.apply(f), o.attr, o[k]: an Output that waits on what o waits on.
OutputApply(o) == [waits |-> o.waits, secret |-> o.secret]

\* The Output arguments of each invoke.
InvokeArgs(i) ==
    CASE i = "credentials"     -> {PropertyOf("resource_group"), PropertyOf("aks")}
      [] i = "acr_credentials" -> {PropertyOf("resource_group"), PropertyOf("acr")}

credentials == InvokeOutput("credentials")

kubeconfig == OutputApply(OutputSecret(OutputApply(credentials)))

acr_credentials == InvokeOutput("acr_credentials")

\* What str() of an Output gives: a fixed text of the library, never the value.
OutputStrs ==
    {"<pulumi.output.Output object>",
     "Calling __str__ on an Output[T] is not supported."}

\* f"{acr.login_server}/k8sflask:latest": str() of the Output, then the suffix.
FormatImage(outputStr) == outputStr \o "/k8sflask:latest"

\* The Output-valued inputs of each resource.  The Deployment has none: its
\* image is the str FormatImage built.
Inputs(r) ==
    CASE r = "resource_group" -> {}
      [] r = "acr"            -> {PropertyOf("resource_group")}
      [] r = "aks"            -> {PropertyOf("resource_group")}
      [] r = "k8s_provider"   -> {kubeconfig}
      [] r = "deployment"     -> {}
      [] r = "service"        -> {}
      [] r = "pull_secret"    -> {OutputApply(acr_credentials)}

\* ProviderOpt with the opts= argument left out of every declaration.
ProviderOptOmitted(r) == {}

\* opts=pulumi.ResourceOptions(provider=k8s_provider)
ProviderOpt(r) ==
    IF r \in {"deployment", "service", "pull_secret"} THEN {"k8s_provider"} ELSE {}

\* Everything (resource or invoke) a resource's apply waits on.
Waits(r) == UNION {o.waits : o \in Inputs(r)} \cup ProviderOpt(r)

\* The resources an invoke's arguments come from.
InvokeDeps(i) == UNION {o.waits : o \in InvokeArgs(i)}

\* The resources a resource depends on, directly or through an invoke.
DependsOn(r) ==
    (Waits(r) \cap Resources)
        \cup UNION {InvokeDeps(i) : i \in Waits(r) \cap Invokes}

\* The login server the provider may assign to the Registry.
LoginServers == {"flaskacr1a2b.azurecr.io", "flaskacr9z8y.azurecr.io"}

----------------------------------------------------------------------------
Started == {"applying", "returned", "applied", "failed"}

Resolved(w) ==
    IF w \in Resources THEN state[w] = "applied" ELSE invoke[w] = "done"

Init ==
    /\ pc = 1
    /\ state = [r \in Resources |-> "undeclared"]
    /\ invoke = [i \in Invokes |-> "uncalled"]
    /\ store = {}
    /\ outputs = ""
    /\ image = ""
    /\ sent = ""
    /\ exports = {}

Running == pc <= Len(Program)

\* A resource constructor: the resource is registered and the program goes on.
\* The Deployment's arguments are evaluated first, the f-string among them.
RegisterResource ==
    /\ Running
    /\ Program[pc] \in Resources
    /\ state' = [state EXCEPT ![Program[pc]] = "registered"]
    /\ IF Program[pc] = "deployment"
         THEN \E s \in OutputStrs : image' = FormatImage(s)
         ELSE image' = image
    /\ pc' = pc + 1
    /\ UNCHANGED <<invoke, store, outputs, sent, exports>>

\* An ..._output invoke: called now, run once its arguments have resolved.
CallInvoke ==
    /\ Running
    /\ Program[pc] \in Invokes
    /\ invoke' = [invoke EXCEPT ![Program[pc]] = "called"]
    /\ pc' = pc + 1
    /\ UNCHANGED <<state, store, outputs, image, sent, exports>>

\* kubeconfig = Output.secret(...).apply(...): wires Outputs, registers nothing.
DeriveOutput ==
    /\ Running
    /\ Program[pc] = "kubeconfig"
    /\ pc' = pc + 1
    /\ UNCHANGED <<state, invoke, store, outputs, image, sent, exports>>

\* pulumi.export("flask-app-ip", service.status.apply(...))
Export ==
    /\ Running
    /\ Program[pc] = "export"
    /\ exports' = exports \cup {"flask-app-ip"}
    /\ pc' = pc + 1
    /\ UNCHANGED <<state, invoke, store, outputs, image, sent>>

\* The invoke runs when every Output among its arguments has resolved.
RunInvoke(i) ==
    /\ invoke[i] = "called"
    /\ \A w \in InvokeDeps(i) : Resolved(w)
    /\ invoke' = [invoke EXCEPT ![i] = "done"]
    /\ UNCHANGED <<pc, state, store, outputs, image, sent, exports>>

\* A registered resource whose inputs have all resolved starts its apply; the
\* provider call is issued with the inputs as they are then.
StartApply(r) ==
    /\ state[r] = "registered"
    /\ \A w \in Waits(r) : Resolved(w)
    /\ state' = [state EXCEPT ![r] = "applying"]
    /\ sent' = IF r = "deployment" THEN image ELSE sent
    /\ UNCHANGED <<pc, invoke, store, outputs, image, exports>>

\* The provider call returns; the Registry gets its login server.
ProviderReturn(r) ==
    /\ state[r] = "applying"
    /\ state' = [state EXCEPT ![r] = "returned"]
    /\ IF r = "acr"
         THEN \E s \in LoginServers : outputs' = s
         ELSE outputs' = outputs
    /\ UNCHANGED <<pc, invoke, store, image, sent, exports>>

\* The StateRecord is committed; the resource's Outputs resolve.
Commit(r) ==
    /\ state[r] = "returned"
    /\ state' = [state EXCEPT ![r] = "applied"]
    /\ store' = store \cup {r}
    /\ UNCHANGED <<pc, invoke, outputs, image, sent, exports>>

\* The provider call fails.
ApplyFail(r) ==
    /\ state[r] = "applying"
    /\ state' = [state EXCEPT ![r] = "failed"]
    /\ UNCHANGED <<pc, invoke, store, outputs, image, sent, exports>>

Next ==
    \/ RegisterResource
    \/ CallInvoke
    \/ DeriveOutput
    \/ Export
    \/ \E i \in Invokes : RunInvoke(i)
    \/ \E r \in Resources : StartApply(r)
    \/ \E r \in Resources : ProviderReturn(r)
    \/ \E r \in Resources : Commit(r)
    \/ \E r \in Resources : ApplyFail(r)

Spec == Init /\ [][Next]_vars

TypeOK ==
    /\ pc \in 1..(Len(Program) + 1)
    /\ state \in [Resources -> {"undeclared", "registered"} \cup Started]
    /\ invoke \in [Invokes -> {"uncalled", "called", "done"}]
    /\ store \subseteq Resources
    /\ outputs \in LoginServers \cup {""}
    /\ exports \subseteq {"flask-app-ip"}

----------------------------------------------------------------------------
\* The dependencies claim C1 names: the Kubernetes resources on the provider,
\* the provider on the cluster, the cluster on the resource group.
ClaimedEdges ==
    { <<"deployment", "k8s_provider">>, <<"service", "k8s_provider">>,
      <<"pull_secret", "k8s_provider">>, <<"k8s_provider", "aks">>,
      <<"aks", "resource_group">> }

\* C1: dependency ordering.  Whenever a resource's apply has started, the
\* StateRecord of every resource it depends on (the edges of the declared
\* graph, and in particular the edges the claim names) is already committed.
C1_DependencyOrdering ==
    /\ \A a \in Resources : \A b \in DependsOn(a) :
           state[a] \in Started => b \in store
    /\ \A e \in ClaimedEdges : state[e[1]] \in Started => e[2] \in store

\* C1's case: the three Kubernetes resources, each behind the whole chain
\* provider -> cluster -> resource group, have all been applied.
C1_Witness ==
    /\ state["deployment"] = "applied"
    /\ state["service"] = "applied"
    /\ state["pull_secret"] = "applied"

\* C10: the Deployment takes its image from the Registry's login_server: its
\* apply never starts before the Registry has been applied and committed, and
\* the image its create is issued with is the resolved login server followed
\* by /k8sflask:latest.
C10_ImageFromRegistry ==
    /\ state["deployment"] \in Started => "acr" \in store
    /\ (state["deployment"] \in Started /\ state["acr"] = "applied")
          => sent = outputs \o "/k8sflask:latest"

====
